---- MODULE Spec2Model ----
(***************************************************************************)
(* Model of the wenpm-bucket scripts:                                      *)
(*   scripts/generate_manifest.py  (GitHubAPI, PlatformDetector,           *)
(*                                  ManifestGenerator)                     *)
(*   scripts/validate_manifest.py  (ManifestValidator)                     *)
(*                                                                         *)
(* Python values that travel through JSON are modelled as tagged values    *)
(* (JNull, JStr, JInt, JList, JObj) so that a type test of the code        *)
(* (isinstance, `in`, .get on a non-dict) is a test of the tag.            *)
(***************************************************************************)
EXTENDS Integers, Sequences, FiniteSets, TLC

(***************************************************************************)
(* Bounds of the model                                                     *)
(***************************************************************************)
MaxAssets == 3

MaxSources == 2

MaxPackages == 2

(***************************************************************************)
(* Strings                                                                 *)
(***************************************************************************)
CharAt(s, i) == SubSeq(s, i, i)

UpperChars == "ABCDEFGHIJKLMNOPQRSTUVWXYZ"

LowerChars == "abcdefghijklmnopqrstuvwxyz"

\* str.lower() on one character
LowerChar(c) ==
    IF \E k \in 1..Len(UpperChars) : CharAt(UpperChars, k) = c
    THEN CharAt(LowerChars, CHOOSE k \in 1..Len(UpperChars) : CharAt(UpperChars, k) = c)
    ELSE c

RECURSIVE Lower(_)
\* str.lower()
Lower(s) == IF Len(s) = 0 THEN "" ELSE LowerChar(CharAt(s, 1)) \o Lower(SubSeq(s, 2, Len(s)))

\* str.startswith(prefix)
StartsWith(s, prefix) ==
    Len(prefix) <= Len(s) /\ SubSeq(s, 1, Len(prefix)) = prefix

\* str.endswith(suffix)
EndsWith(s, suffix) ==
    Len(suffix) <= Len(s) /\ SubSeq(s, Len(s) - Len(suffix) + 1, Len(s)) = suffix

\* `sub in s` on strings
Contains(s, sub) ==
    \E p \in 1..(Len(s) - Len(sub) + 1) : SubSeq(s, p, p + Len(sub) - 1) = sub

InClass(c, cls) == \E k \in 1..Len(cls) : CharAt(cls, k) = c

(***************************************************************************)
(* Regular expressions (the subset of `re` the scripts use).  A regex is a *)
(* sequence of alternatives, an alternative a sequence of atoms.           *)
(***************************************************************************)
L(s)       == [k |-> "lit", v |-> s]      \* literal text
ANY        == [k |-> "any", v |-> ""]     \* .*
C(cls)     == [k |-> "cls", v |-> cls]    \* [cls]
BOL        == [k |-> "bol", v |-> ""]     \* ^
EOL        == [k |-> "eol", v |-> ""]     \* $
PlusNot(x) == [k |-> "plusnot", v |-> x]  \* [^x]+
PlusIn(x)  == [k |-> "plusin", v |-> x]   \* [x]+

\* every alternative of A followed by every alternative of B: (?:A)(?:B)
Cross(A, B) ==
    [n \in 1..(Len(A) * Len(B)) |->
        A[((n - 1) \div Len(B)) + 1] \o B[((n - 1) % Len(B)) + 1]]

RECURSIVE MatchHere(_, _, _)
\* the atoms match s from position pos on
MatchHere(atoms, s, pos) ==
    IF Len(atoms) = 0 THEN TRUE
    ELSE LET a == Head(atoms)
             rest == Tail(atoms)
         IN  CASE a.k = "lit" ->
                     /\ pos + Len(a.v) - 1 <= Len(s)
                     /\ SubSeq(s, pos, pos + Len(a.v) - 1) = a.v
                     /\ MatchHere(rest, s, pos + Len(a.v))
               [] a.k = "any" ->
                     \E q \in pos..(Len(s) + 1) : MatchHere(rest, s, q)
               [] a.k = "cls" ->
                     /\ pos <= Len(s)
                     /\ InClass(CharAt(s, pos), a.v)
                     /\ MatchHere(rest, s, pos + 1)
               [] a.k = "bol" -> pos = 1 /\ MatchHere(rest, s, pos)
               [] a.k = "eol" -> pos = Len(s) + 1 /\ MatchHere(rest, s, pos)
               [] a.k = "plusnot" ->
                     \E q \in (pos + 1)..(Len(s) + 1) :
                        /\ \A j \in pos..(q - 1) : ~InClass(CharAt(s, j), a.v)
                        /\ MatchHere(rest, s, q)
               [] a.k = "plusin" ->
                     \E q \in (pos + 1)..(Len(s) + 1) :
                        /\ \A j \in pos..(q - 1) : InClass(CharAt(s, j), a.v)
                        /\ MatchHere(rest, s, q)

\* re.search(regex, s) is not None
Search(regex, s) ==
    \E n \in 1..Len(regex) : \E p \in 1..(Len(s) + 1) : MatchHere(regex[n], s, p)

(***************************************************************************)
(* PlatformDetector                                                        *)
(***************************************************************************)
None == "None"

\* (?:[_.-]|\.tar|\.zip)
SepTarZip == << <<C("_.-")>>, <<L(".tar")>>, <<L(".zip")>> >>

\* (?:^|[_-])
BolOrSep == << <<BOL>>, <<C("_-")>> >>

\* PlatformDetector.PATTERNS, in the order of the dict
PATTERNS == <<
    [platform |-> "windows-x86_64", patterns |-> <<
        << <<L("windows"), ANY, L("x86_64")>>, <<L("x86_64"), ANY, L("windows")>>,
           <<L("win64")>>, <<L("windows"), ANY, L("amd64")>>,
           <<L("x64"), ANY, L("windows")>> >>,
        << <<L("pc-windows-msvc")>> >> >>],
    [platform |-> "windows-i686", patterns |-> <<
        << <<L("windows"), ANY, L("i686")>>, <<L("i686"), ANY, L("windows")>>,
           <<L("win32")>> >>,
        << <<L("pc-windows-msvc"), ANY, L("i686")>> >> >>],
    [platform |-> "linux-x86_64", patterns |-> <<
        << <<L("linux"), ANY, L("x86_64")>>, <<L("x86_64"), ANY, L("linux")>>,
           <<L("linux"), ANY, L("amd64")>> >>,
        << <<L("x86_64"), ANY, L("unknown-linux-gnu")>> >>,
        << <<L("x86_64"), ANY, L("unknown-linux-musl")>> >> >>],
    [platform |-> "linux-aarch64", patterns |-> <<
        << <<L("linux"), ANY, L("aarch64")>>, <<L("aarch64"), ANY, L("linux")>>,
           <<L("linux"), ANY, L("arm64")>> >>,
        << <<L("aarch64"), ANY, L("unknown-linux-musl")>> >>,
        << <<L("aarch64"), ANY, L("unknown-linux-gnu")>> >> >>],
    [platform |-> "linux-armv7", patterns |-> <<
        << <<L("linux"), ANY, L("armv7")>>, <<L("armv7"), ANY, L("linux")>>,
           <<L("linux"), ANY, L("arm7")>> >>,
        << <<L("armv7"), ANY, L("unknown-linux-musleabihf")>> >>,
        << <<L("armv7"), ANY, L("unknown-linux-gnueabihf")>> >> >>],
    [platform |-> "linux-armv6", patterns |-> <<
        << <<L("linux"), ANY, L("armv6")>>, <<L("armv6"), ANY, L("linux")>>,
           <<L("linux"), ANY, L("arm6")>> >>,
        << <<L("arm"), ANY, L("unknown-linux-musleabihf")>> >>,
        << <<L("arm"), ANY, L("unknown-linux-gnueabihf")>> >> >>],
    [platform |-> "linux-i686", patterns |-> <<
        << <<L("linux"), ANY, L("i686")>>, <<L("i686"), ANY, L("linux")>> >>,
        << <<L("i686"), ANY, L("unknown-linux-gnu")>> >>,
        << <<L("i686"), ANY, L("unknown-linux-musl")>> >> >>],
    [platform |-> "freebsd-x86_64", patterns |-> <<
        << <<L("freebsd"), ANY, L("x86_64")>>, <<L("x86_64"), ANY, L("freebsd")>>,
           <<L("freebsd"), ANY, L("amd64")>> >>,
        << <<L("x86_64"), ANY, L("unknown-freebsd")>> >> >>],
    [platform |-> "darwin-x86_64", patterns |-> <<
        << <<L("darwin"), ANY, L("x86_64")>>, <<L("x86_64"), ANY, L("darwin")>>,
           <<L("macos"), ANY, L("x86_64")>>, <<L("osx"), ANY, L("x86_64")>> >>,
        << <<L("apple-darwin"), ANY, L("x86_64")>> >>,
        Cross(<< <<L("mac-x86")>>, <<L("osx-x86")>> >>, SepTarZip) >>],
    [platform |-> "darwin-aarch64", patterns |-> <<
        << <<L("darwin"), ANY, L("aarch64")>>, <<L("aarch64"), ANY, L("darwin")>>,
           <<L("darwin"), ANY, L("arm64")>>, <<L("macos"), ANY, L("arm64")>>,
           <<L("osx"), ANY, L("arm64")>> >>,
        << <<L("apple-darwin"), ANY, L("aarch64")>> >> >>],
    [platform |-> "macos-x86_64", patterns |-> <<
        << <<L("macos"), ANY, L("x86_64")>>, <<L("osx"), ANY, L("x86_64")>> >> >>],
    [platform |-> "macos-aarch64", patterns |-> <<
        << <<L("macos"), ANY, L("aarch64")>>, <<L("macos"), ANY, L("arm64")>>,
           <<L("osx"), ANY, L("arm64")>> >> >>]
    >>

\* PlatformDetector.FALLBACK_PATTERNS, in the order of the dict
FALLBACK_PATTERNS == <<
    [platform |-> "windows-x86_64", patterns |-> <<
        Cross(Cross(BolOrSep, << <<L("win")>>, <<L("windows")>> >>),
              << <<C("_.-")>>, <<L(".tar")>>, <<L(".zip")>>, <<L(".msi")>>, <<L(".exe")>> >>) >>],
    [platform |-> "linux-x86_64", patterns |-> <<
        Cross(Cross(BolOrSep, << <<L("linux")>> >>), SepTarZip) >>],
    [platform |-> "darwin-aarch64", patterns |-> <<
        Cross(Cross(BolOrSep, << <<L("mac")>>, <<L("macos")>>, <<L("osx")>>, <<L("darwin")>> >>),
              SepTarZip) >>]
    >>

\* PlatformDetector.ARCHIVE_EXTENSIONS
ARCHIVE_EXTENSIONS == <<".tar.gz", ".tgz", ".zip", ".tar.xz", ".tar.bz2", ".exe", ".msi">>

\* the first entry of an ordered table one of whose patterns is found in s (0: none)
FirstMatch(table, s) ==
    LET hits == {n \in 1..Len(table) :
                    \E m \in 1..Len(table[n].patterns) : Search(table[n].patterns[m], s)}
    IN  IF hits = {} THEN 0 ELSE CHOOSE n \in hits : \A m \in hits : n <= m

\* PlatformDetector.get_linux_variant_priority
get_linux_variant_priority(filename) ==
    LET filename_lower == Lower(filename)
    IN  IF Contains(filename_lower, "musl") THEN 3
        ELSE IF Contains(filename_lower, "gnu") THEN 2
        ELSE 1

\* PlatformDetector.detect_platform: the platform returned and whether the
\* "Fallback assumption" line was printed on the way
DetectResult(filename) ==
    LET filename_lower == Lower(filename)
        exact == FirstMatch(PATTERNS, filename_lower)
        fallback == FirstMatch(FALLBACK_PATTERNS, filename_lower)
    IN  IF ~\E e \in 1..Len(ARCHIVE_EXTENSIONS) : EndsWith(filename_lower, ARCHIVE_EXTENSIONS[e])
        THEN [platform |-> None, notice |-> FALSE]
        ELSE IF exact # 0 THEN [platform |-> PATTERNS[exact].platform, notice |-> FALSE]
        ELSE IF fallback # 0
             THEN [platform |-> FALLBACK_PATTERNS[fallback].platform, notice |-> TRUE]
        ELSE [platform |-> None, notice |-> FALSE]

\* the filenames the model's releases carry, classified once
KnownFilenames ==
    {"app-x86_64-unknown-linux-musl.tar.gz", "app-x86_64-unknown-linux-gnu.tar.gz",
     "App-Linux-AMD64.TGZ", "app-linux-x86_64-MUSL.zip",
     "app-aarch64-unknown-linux-gnu.tar.gz", "app-x86_64-pc-windows-gnu.zip",
     "app-x86_64-pc-windows-msvc.zip", "tool-mac.tar.gz", "sums.sha256"}

DetectTable == [f \in KnownFilenames |-> DetectResult(f)]

PriorityTable == [f \in KnownFilenames |-> get_linux_variant_priority(f)]

\* DetectResult, looked up for a known filename
Detect(filename) ==
    IF filename \in KnownFilenames THEN DetectTable[filename] ELSE DetectResult(filename)

\* PlatformDetector.detect_platform, the value returned
detect_platform(filename) == Detect(filename).platform

\* get_linux_variant_priority, looked up for a known filename
variant_priority(filename) ==
    IF filename \in KnownFilenames THEN PriorityTable[filename]
    ELSE get_linux_variant_priority(filename)

(***************************************************************************)
(* Artifact selection: the asset loop of fetch_package_info                *)
(***************************************************************************)
\* an empty Python dict
EmptyDict == [x \in {} |-> 0]

\* mutant of DictSet: the dict is replaced by one that holds the new key only
DictSet_OnlyNewKey(d, k, v) == [x \in {k} |-> v]

\* d[k] = v
DictSet(d, k, v) == [x \in (DOMAIN d) \cup {k} |-> IF x = k THEN v ELSE d[x]]

\* d.get(k, default)
DictGet(d, k, default) == IF k \in DOMAIN d THEN d[k] ELSE default

\* a release asset as the API returns it
Asset(name, size) ==
    [name |-> name,
     browser_download_url |-> "https://github.com/o/r/releases/download/v1/" \o name,
     size |-> size]

\* the assets a release is made of in the model
AssetPool == {
    Asset("app-x86_64-unknown-linux-musl.tar.gz", 11),
    Asset("app-x86_64-unknown-linux-gnu.tar.gz", 12),
    Asset("App-Linux-AMD64.TGZ", 13),
    Asset("app-linux-x86_64-MUSL.zip", 14),
    Asset("app-aarch64-unknown-linux-gnu.tar.gz", 15),
    Asset("app-x86_64-pc-windows-gnu.zip", 16),
    Asset("app-x86_64-pc-windows-msvc.zip", 17),
    Asset("tool-mac.tar.gz", 18),
    Asset("sums.sha256", 19) }

RECURSIVE SeqsUpTo(_, _)
\* the sequences over S of length at most n
SeqsUpTo(S, n) ==
    IF n = 0 THEN {<<>>}
    ELSE LET shorter == SeqsUpTo(S, n - 1)
         IN  shorter \cup {Append(q, x) : q \in {r \in shorter : Len(r) = n - 1}, x \in S}

\* fetch_package_info, the dict built for one classified asset
asset_info(asset) == [url |-> asset.browser_download_url, size |-> asset.size]

\* mutant of HigherPriority: an equal-priority later asset also takes the binding
HigherPriority_OrEqual(current_priority, existing_priority) ==
    current_priority >= existing_priority

\* fetch_package_info, the test that lets a Linux asset take the binding
HigherPriority(current_priority, existing_priority) == current_priority > existing_priority

\* mutant of IsLinuxPlatform: every platform goes through the priority rule
IsLinuxPlatform_Any(platform) == TRUE

\* fetch_package_info, the test that sends a platform through the priority rule
IsLinuxPlatform(platform) == StartsWith(platform, "linux-")

\* fetch_package_info, one iteration of `for asset in release.get("assets", [])`
\* on st = [platforms, platform_priorities]
SelectorStep(st, asset) ==
    LET platform == detect_platform(asset.name)
    IN  IF platform = None THEN st
        ELSE IF IsLinuxPlatform(platform)
             THEN LET current_priority == variant_priority(asset.name)
                      existing_priority == DictGet(st.platform_priorities, platform, 0)
                  IN  IF HigherPriority(current_priority, existing_priority)
                      THEN [platforms |-> DictSet(st.platforms, platform, asset_info(asset)),
                            platform_priorities |->
                                DictSet(st.platform_priorities, platform, current_priority)]
                      ELSE st
             ELSE [platforms |-> DictSet(st.platforms, platform, asset_info(asset)),
                   platform_priorities |-> st.platform_priorities]

RECURSIVE SelectFrom(_, _)
\* fetch_package_info, the whole asset loop started from st
SelectFrom(st, assets) ==
    IF Len(assets) = 0 THEN st
    ELSE SelectFrom(SelectorStep(st, Head(assets)), Tail(assets))

\* fetch_package_info, the platforms dict the asset loop ends with
Select(assets) ==
    SelectFrom([platforms |-> EmptyDict, platform_priorities |-> EmptyDict], assets).platforms

(***************************************************************************)
(* JSON values: what json.loads returns and json.dump writes               *)
(***************************************************************************)
JNull        == [t |-> "null"]
JStr(s)      == [t |-> "str", s |-> s]
JInt(n)      == [t |-> "int", n |-> n]
JList(items) == [t |-> "list", items |-> items]
JObj(f)      == [t |-> "dict", f |-> f]

\* Python truth value of a JSON value (`x or y`, `if x`, `a and b`)
Truthy(v) ==
    CASE v.t = "null" -> FALSE
      [] v.t = "str"  -> Len(v.s) > 0
      [] v.t = "int"  -> v.n # 0
      [] v.t = "list" -> Len(v.items) > 0
      [] v.t = "dict" -> DOMAIN v.f # {}

(***************************************************************************)
(* ManifestGenerator: sources and URLs                                     *)
(***************************************************************************)
RECURSIVE LStrip(_)
LStrip(s) == IF Len(s) > 0 /\ CharAt(s, 1) = " " THEN LStrip(SubSeq(s, 2, Len(s))) ELSE s

RECURSIVE RStrip(_)
RStrip(s) ==
    IF Len(s) > 0 /\ CharAt(s, Len(s)) = " " THEN RStrip(SubSeq(s, 1, Len(s) - 1)) ELSE s

\* str.strip()
Strip(s) == RStrip(LStrip(s))

RECURSIVE load_sources(_)
\* ManifestGenerator.load_sources on the lines of an existing file
load_sources(lines) ==
    IF Len(lines) = 0 THEN <<>>
    ELSE LET line == Strip(Head(lines))
         IN  (IF Len(line) > 0 /\ ~StartsWith(line, "#") THEN <<line>> ELSE <<>>)
                 \o load_sources(Tail(lines))

\* ManifestGenerator.parse_github_url: TRUE for an (owner, repo) tuple, FALSE for
\* None (owner and repo only name the request, which the network answers freely)
parse_github_url(url) ==
    \/ Search(<< <<L("github.com/"), PlusNot("/"), L("/"), PlusNot("/"), EOL>>,
                 <<L("github.com/"), PlusNot("/"), L("/"), PlusNot("/"), L(".git"), EOL>> >>, url)
    \/ Search(<< <<L("github.com/"), PlusNot("/"), L("/"), PlusNot("/")>> >>, url)

HexDigits == "abcdef0123456789"

\* ManifestGenerator.parse_gist_url: TRUE for a gist id, FALSE for None
parse_gist_url(url) ==
    \/ Search(<< <<L("gist.github.com/"), PlusNot("/"), L("/"), PlusIn(HexDigits)>> >>, url)
    \/ Search(<< <<L("gist.githubusercontent.com/"), PlusNot("/"), L("/"), PlusIn(HexDigits)>> >>,
              url)

\* ManifestGenerator.detect_script_type, ext_map in the order of the dict
ext_map == << <<".ps1", "powershell">>, <<".sh", "bash">>, <<".bat", "batch">>,
              <<".cmd", "batch">>, <<".py", "python">> >>

\* ManifestGenerator.detect_script_type
detect_script_type(filename) ==
    LET hits == {n \in 1..Len(ext_map) : EndsWith(Lower(filename), ext_map[n][1])}
    IN  IF hits = {} THEN None ELSE ext_map[CHOOSE n \in hits : \A m \in hits : n <= m][2]

\* fetch_gist_scripts, "Remove extension from script name"
script_name(filename) ==
    LET hits == {n \in 1..Len(ext_map) : EndsWith(filename, ext_map[n][1])}
        first == CHOOSE n \in hits : \A m \in hits : n <= m
    IN  IF hits = {} THEN filename
        ELSE SubSeq(filename, 1, Len(filename) - Len(ext_map[first][1]))

RECURSIVE gist_scripts(_, _)
\* fetch_gist_scripts, the loop over gist_data["files"]
gist_scripts(gist_data, files) ==
    IF Len(files) = 0 THEN <<>>
    ELSE LET f == Head(files)
             script_type == detect_script_type(f.filename)
         IN  (IF script_type = None THEN <<>>
              ELSE << [name |-> script_name(f.filename),
                       description |-> IF Truthy(gist_data.description)
                                       THEN gist_data.description
                                       ELSE JStr(f.filename \o " from gist"),
                       url |-> f.raw_url,
                       script_type |-> script_type,
                       repo |-> gist_data.html_url] >>)
                 \o gist_scripts(gist_data, Tail(files))

\* what the gist API answers in the model
GistResponses == {
    [description |-> JNull,
     html_url |-> "https://gist.github.com/u/abc123",
     files |-> << [filename |-> "setup.sh", raw_url |-> "https://gist.githubusercontent.com/u/abc123/raw/setup.sh"],
                  [filename |-> "README.md", raw_url |-> "https://gist.githubusercontent.com/u/abc123/raw/README.md"] >>] }

\* the script-source files of the model
ScriptSourceFiles == { <<>>,
                       <<"https://gist.github.com/u/abc123">>,
                       <<"# gists", "https://example.com/u/abc123">> }

\* the lines a package-source file is made of in the model
SourceLines == {"https://github.com/o/a", " https://github.com/p/b.git ",
                "https://example.com/o/a", "# tools"}

\* what GET /repos/{owner}/{repo} answers in the model
RepoInfos == {
    [name |-> JStr("a"), description |-> JNull,
     html_url |-> JStr("https://github.com/o/a"), homepage |-> JNull, license |-> JNull],
    [name |-> JStr("b"), description |-> JStr("b tool"),
     html_url |-> JStr("https://github.com/p/b"), homepage |-> JStr("https://b.example"),
     license |-> JObj([spdx_id |-> JStr("MIT")])] }

\* the asset lists GET /repos/{owner}/{repo}/releases/latest answers in the model
ReleaseAssetLists == {
    << Asset("sums.sha256", 19) >>,
    << Asset("app-x86_64-unknown-linux-gnu.tar.gz", 12),
       Asset("app-x86_64-unknown-linux-musl.tar.gz", 11),
       Asset("app-x86_64-pc-windows-msvc.zip", 17) >>,
    << Asset("tool-mac.tar.gz", 18) >> }

\* fetch_package_info, "Build package info"
BuildPackage(info, plats) ==
    [name |-> info.name,
     description |-> IF Truthy(info.description) THEN info.description ELSE JStr(""),
     repo |-> info.html_url,
     homepage |-> info.homepage,
     license |-> IF Truthy(info.license) THEN info.license.f["spdx_id"] ELSE JNull,
     platforms |-> plats]

\* fetch_package_info after both requests returned: <<package>>, or <<>> for None
PackageOf(info, assets) ==
    IF Select(assets) = EmptyDict THEN <<>> ELSE << BuildPackage(info, Select(assets)) >>

\* PackageOf on the answers of the model, computed once
PackageTable == [info \in RepoInfos |-> [assets \in ReleaseAssetLists |-> PackageOf(info, assets)]]

\* fetch_package_info on the answers of the model
PackageFrom(info, assets) == PackageTable[info][assets]

\* json.dump of one package record
PackageJson(package) ==
    JObj([name |-> package.name,
          description |-> package.description,
          repo |-> package.repo,
          homepage |-> package.homepage,
          license |-> package.license,
          platforms |-> JObj([P \in DOMAIN package.platforms |->
                                JObj([url |-> JStr(package.platforms[P].url),
                                      size |-> JInt(package.platforms[P].size)])])])

\* json.dump of one script record
ScriptJson(script) ==
    JObj([name |-> JStr(script.name),
          description |-> script.description,
          url |-> JStr(script.url),
          script_type |-> JStr(script.script_type),
          repo |-> JStr(script.repo)])

\* time.strftime("%Y-%m-%dT%H:%M:%SZ", time.gmtime())
Timestamp == "2026-01-01T00:00:00Z"

\* generate, manifest_obj as json.dump writes it
ManifestJson(pkgs, scrs) ==
    IF Len(scrs) > 0
    THEN JObj([packages |-> JList([n \in 1..Len(pkgs) |-> PackageJson(pkgs[n])]),
               last_updated |-> JStr(Timestamp),
               scripts |-> JList([n \in 1..Len(scrs) |-> ScriptJson(scrs[n])])])
    ELSE JObj([packages |-> JList([n \in 1..Len(pkgs) |-> PackageJson(pkgs[n])]),
               last_updated |-> JStr(Timestamp)])

\* the manifest file on disk
NoFile        == [kind |-> "missing", doc |-> JNull]
BrokenFile    == [kind |-> "malformed", doc |-> JNull]
JsonFile(doc) == [kind |-> "json", doc |-> doc]

VARIABLES cls_filename, cls_pc, cls_n, cls_platform, cls_stdout, cls_consulted

VARIABLES sel_assets, sel_i, platforms, platform_priorities

VARIABLES sources_lines, scripts_lines, gen_pc, gen_i, urls, gist_urls, packages,
          scripts, repo_info, attempt, last_response, rate_limit_remaining,
          fetched, file, called, slept

VARIABLES v_pc, v_packages, v_i, errors, warnings, v_stdout, result, exit_code,
          checks_run

clsVars == <<cls_filename, cls_pc, cls_n, cls_platform, cls_stdout, cls_consulted>>

selVars == <<sel_assets, sel_i, platforms, platform_priorities>>

genVars == <<sources_lines, scripts_lines, gen_pc, gen_i, urls, gist_urls, packages,
             scripts, repo_info, attempt, last_response, rate_limit_remaining,
             fetched, file, called, slept>>

valVars == <<v_pc, v_packages, v_i, errors, warnings, v_stdout, result, exit_code,
             checks_run>>

vars == <<clsVars, selVars, genVars, valVars>>

(***************************************************************************)
(* PlatformDetector.detect_platform, step by step                          *)
(***************************************************************************)
\* the filenames detect_platform is called with in the model
ClassifierFilenames ==
    KnownFilenames \cup {"tool-win.exe", "app-linux.tar.gz", "Tool-MacOS.ZIP", "readme.zip",
                         "app-linux.txt", "app-freebsd-amd64.tar.xz"}

\* mutant of FallbackNotice: the fallback result is returned silently
FallbackNotice_Silent(filename, platform) == <<>>

\* detect_platform: print(f"   Fallback assumption: {filename} -> {platform}")
FallbackNotice(filename, platform) == << [filename |-> filename, platform |-> platform] >>

\* whether one pattern of the entry n of a table is found in s
EntryMatches(table, n, s) ==
    \E m \in 1..Len(table[n].patterns) : Search(table[n].patterns[m], s)

\* the classifier at rest (the specifications that do not step it)
ClsIdle ==
    /\ cls_filename = ""
    /\ cls_pc = "off"
    /\ cls_n = 0
    /\ cls_platform = None
    /\ cls_stdout = <<>>
    /\ cls_consulted = {}

\* detect_platform is called with a filename
ClsInit ==
    /\ cls_filename \in ClassifierFilenames
    /\ cls_pc = "archive"
    /\ cls_n = 0
    /\ cls_platform = None
    /\ cls_stdout = <<>>
    /\ cls_consulted = {}

\* detect_platform: "Check if it's an archive"
CheckArchive ==
    /\ cls_pc = "archive"
    /\ IF \E e \in 1..Len(ARCHIVE_EXTENSIONS) :
             EndsWith(Lower(cls_filename), ARCHIVE_EXTENSIONS[e])
       THEN cls_pc' = "exact" /\ cls_n' = 1
       ELSE cls_pc' = "returned" /\ cls_n' = 0
    /\ UNCHANGED <<cls_filename, cls_platform, cls_stdout, cls_consulted>>
    /\ UNCHANGED <<selVars, genVars, valVars>>

\* detect_platform: one iteration of `for platform, patterns in cls.PATTERNS.items()`
TryExactEntry ==
    /\ cls_pc = "exact"
    /\ cls_consulted' = cls_consulted \cup {"PATTERNS"}
    /\ IF EntryMatches(PATTERNS, cls_n, Lower(cls_filename))
       THEN /\ cls_platform' = PATTERNS[cls_n].platform
            /\ cls_pc' = "returned"
            /\ UNCHANGED cls_n
       ELSE /\ cls_pc' = IF cls_n < Len(PATTERNS) THEN "exact" ELSE "fallback"
            /\ cls_n' = IF cls_n < Len(PATTERNS) THEN cls_n + 1 ELSE 1
            /\ UNCHANGED cls_platform
    /\ UNCHANGED <<cls_filename, cls_stdout>>
    /\ UNCHANGED <<selVars, genVars, valVars>>

\* detect_platform: one iteration of
\* `for platform, patterns in cls.FALLBACK_PATTERNS.items()`
TryFallbackEntry ==
    /\ cls_pc = "fallback"
    /\ cls_consulted' = cls_consulted \cup {"FALLBACK_PATTERNS"}
    /\ IF EntryMatches(FALLBACK_PATTERNS, cls_n, Lower(cls_filename))
       THEN /\ cls_stdout' = cls_stdout
                    \o FallbackNotice(cls_filename, FALLBACK_PATTERNS[cls_n].platform)
            /\ cls_platform' = FALLBACK_PATTERNS[cls_n].platform
            /\ cls_pc' = "returned"
            /\ UNCHANGED cls_n
       ELSE /\ cls_pc' = IF cls_n < Len(FALLBACK_PATTERNS) THEN "fallback" ELSE "returned"
            /\ cls_n' = IF cls_n < Len(FALLBACK_PATTERNS) THEN cls_n + 1 ELSE 0
            /\ UNCHANGED <<cls_platform, cls_stdout>>
    /\ UNCHANGED cls_filename
    /\ UNCHANGED <<selVars, genVars, valVars>>

ClsNext ==
    \/ CheckArchive
    \/ TryExactEntry
    \/ TryFallbackEntry

\* the selector at rest (the specifications that do not step it)
SelIdle ==
    /\ sel_assets = <<>>
    /\ sel_i = 0
    /\ platforms = EmptyDict
    /\ platform_priorities = EmptyDict

\* the asset list of one release, the loop not yet entered
SelInit ==
    /\ sel_assets \in SeqsUpTo(AssetPool, MaxAssets)
    /\ sel_i = 0
    /\ platforms = EmptyDict
    /\ platform_priorities = EmptyDict

\* one iteration of the asset loop
SelectAsset ==
    /\ sel_i < Len(sel_assets)
    /\ LET st == SelectorStep([platforms |-> platforms,
                               platform_priorities |-> platform_priorities],
                              sel_assets[sel_i + 1])
       IN  /\ platforms' = st.platforms
           /\ platform_priorities' = st.platform_priorities
    /\ sel_i' = sel_i + 1
    /\ UNCHANGED <<sel_assets, clsVars, genVars, valVars>>

(***************************************************************************)
(* GitHubAPI._make_request and ManifestGenerator.generate                  *)
(***************************************************************************)
\* generate_manifest.py, MAX_RETRIES
MAX_RETRIES == 3

\* generate_manifest.py, RATE_LIMIT_DELAY (seconds)
RATE_LIMIT_DELAY == 1

\* generate_manifest.py, RETRY_DELAY (seconds)
RETRY_DELAY == 5

\* time.sleep(d) after t seconds were slept since the last outbound call; the
\* count stops at the longest single sleep
Sleep(t, d) == IF t + d > RETRY_DELAY THEN RETRY_DELAY ELSE t + d

\* one urlopen attempt as _make_request saw it: kind is "ok", "http" (HTTPError
\* with its code; rate_body says the body of a 403 mentions "rate limit"), "url"
\* (URLError) or "other" (any other exception, such as a timeout while reading
\* the body); log is the line _make_request printed for it
Response(kind, code, rate_body, log) ==
    [kind |-> kind, code |-> code, rate_body |-> rate_body, log |-> log]

NoResponse == Response("none", 0, FALSE, "none")

\* the X-RateLimit-Remaining header values of the model (None: header absent)
HeaderValues == {None, "0", "59"}

\* _make_request, the test that tells a rate-limit 403 from a permission 403
IsRateLimit(rate_body, remaining) == rate_body \/ remaining = "0"

\* mutant of AttemptsRemain: one attempt more than MAX_RETRIES
AttemptsRemain_OneMore(n) == n < MAX_RETRIES

\* _make_request, the test that lets a failed attempt be followed by another
AttemptsRemain(n) == n < MAX_RETRIES - 1

\* the generator not running (the specifications that do not step it)
GenIdle ==
    /\ sources_lines = <<>>
    /\ scripts_lines = <<>>
    /\ gen_pc = "off"
    /\ gen_i = 0
    /\ urls = <<>>
    /\ gist_urls = <<>>
    /\ packages = <<>>
    /\ scripts = <<>>
    /\ repo_info = JNull
    /\ attempt = 0
    /\ last_response = NoResponse
    /\ rate_limit_remaining = None
    /\ fetched = <<>>
    /\ called = FALSE
    /\ slept = 0

\* ManifestGenerator.__init__ and the two source files generate is given
GenInit ==
    /\ sources_lines \in SeqsUpTo(SourceLines, MaxSources)
    /\ scripts_lines \in ScriptSourceFiles
    /\ gen_pc = "start"
    /\ gen_i = 0
    /\ urls = <<>>
    /\ gist_urls = <<>>
    /\ packages = <<>>
    /\ scripts = <<>>
    /\ repo_info = JNull
    /\ attempt = 0
    /\ last_response = NoResponse
    /\ rate_limit_remaining = None
    /\ fetched = <<>>
    /\ file = NoFile
    /\ called = FALSE
    /\ slept = 0

\* generate: load the script sources
LoadScriptSources ==
    /\ gen_pc = "start"
    /\ gist_urls' = load_sources(scripts_lines)
    /\ gen_i' = 1
    /\ gen_pc' = IF Len(gist_urls') > 0 THEN "gist" ELSE "load"
    /\ UNCHANGED <<sources_lines, scripts_lines, urls, packages, scripts, repo_info,
                   attempt, last_response, rate_limit_remaining, fetched, file, called, slept>>
    /\ UNCHANGED <<clsVars, selVars, valVars>>

\* what fetch_gist_scripts returns on the answers of the model: [] for an
\* exception of the request, or the scripts of the gist
GistResults == {<<>>} \cup {gist_scripts(r, r.files) : r \in GistResponses}

\* generate: one iteration of the gist loop; fetch_gist_scripts returns the
\* scripts of the gist, or [] for an invalid URL or any exception of the request
FetchGist ==
    /\ gen_pc = "gist"
    /\ \E got \in GistResults :
          scripts' = scripts \o (IF parse_gist_url(gist_urls[gen_i]) THEN got ELSE <<>>)
    /\ gen_i' = IF gen_i < Len(gist_urls) THEN gen_i + 1 ELSE 1
    /\ gen_pc' = IF gen_i < Len(gist_urls) THEN "gist" ELSE "load"
    /\ called' = (called \/ parse_gist_url(gist_urls[gen_i]))
    /\ slept' = Sleep(IF parse_gist_url(gist_urls[gen_i]) THEN 0 ELSE slept,
                      IF gen_i < Len(gist_urls) THEN RATE_LIMIT_DELAY ELSE 0)
    /\ UNCHANGED <<sources_lines, scripts_lines, urls, gist_urls, packages, repo_info,
                   attempt, last_response, rate_limit_remaining, fetched, file>>
    /\ UNCHANGED <<clsVars, selVars, valVars>>

\* generate: load the package sources
LoadPackageSources ==
    /\ gen_pc = "load"
    /\ urls' = load_sources(sources_lines)
    /\ gen_i' = 1
    /\ gen_pc' = IF Len(urls') > 0 THEN "pkg" ELSE "save"
    /\ UNCHANGED <<sources_lines, scripts_lines, gist_urls, packages, scripts, repo_info,
                   attempt, last_response, rate_limit_remaining, fetched, file, called, slept>>
    /\ UNCHANGED <<clsVars, selVars, valVars>>

\* mutant of AppendPackage: the record is put in front of the earlier ones
AppendPackage_InFront(pkgs, package) == package \o pkgs

\* generate: `if package: self.packages.append(package)`; package is <<record>>
\* or <<>> for None
AppendPackage(pkgs, package) == pkgs \o package

\* generate: the rest of the loop body once fetch_package_info has returned
\* `package` (<<record>>, or <<>> for None) after the network delivered
\* `delivered` (<<[repo_info, assets]>>, or <<>> when a request failed or none
\* was made)
FinishSource(package, delivered) ==
    /\ packages' = AppendPackage(packages, package)
    /\ slept' = Sleep(IF gen_pc \in {"repo_req", "release_req"} THEN 0 ELSE slept,
                      IF gen_i < Len(urls) THEN RATE_LIMIT_DELAY ELSE 0)
    /\ fetched' = Append(fetched, delivered)
    /\ gen_i' = gen_i + 1
    /\ gen_pc' = IF gen_i < Len(urls) THEN "pkg" ELSE "save"

\* fetch_package_info up to the first request
StartSource ==
    /\ gen_pc = "pkg"
    /\ IF parse_github_url(urls[gen_i])
       THEN /\ gen_pc' = "repo_req"
            /\ attempt' = 0
            /\ UNCHANGED <<packages, fetched, gen_i, slept>>
       ELSE /\ FinishSource(<<>>, <<>>)
            /\ UNCHANGED attempt
    /\ UNCHANGED <<sources_lines, scripts_lines, urls, gist_urls, scripts, repo_info,
                   last_response, rate_limit_remaining, file, called>>
    /\ UNCHANGED <<clsVars, selVars, valVars>>

\* an exception leaves _make_request: fetch_package_info catches it (the release
\* request at line 349, the repository request at line 397) and returns None
CallFailed ==
    /\ FinishSource(<<>>, <<>>)
    /\ attempt' = 0
    /\ repo_info' = JNull

\* _make_request: `if attempt < MAX_RETRIES - 1: time.sleep(RETRY_DELAY) else: raise`
RetryOrRaise ==
    IF AttemptsRemain(attempt)
    THEN /\ attempt' = attempt + 1
         /\ slept' = Sleep(0, RETRY_DELAY)
         /\ UNCHANGED <<gen_pc, gen_i, packages, fetched, repo_info>>
    ELSE CallFailed

\* get_repo_info: an attempt that returns the repository
RepoInfoOk ==
    /\ gen_pc = "repo_req"
    /\ \E h \in HeaderValues : rate_limit_remaining' = h
    /\ \E info \in RepoInfos : repo_info' = info
    /\ last_response' = Response("ok", 200, FALSE, "none")
    /\ gen_pc' = "release_req"
    /\ attempt' = 0
    /\ called' = TRUE
    /\ slept' = 0
    /\ UNCHANGED <<sources_lines, scripts_lines, urls, gist_urls, packages, scripts,
                   gen_i, fetched, file>>
    /\ UNCHANGED <<clsVars, selVars, valVars>>

\* get_latest_release: an attempt that returns the release; fetch_package_info
\* then runs the asset loop and builds the package
ReleaseOk ==
    /\ gen_pc = "release_req"
    /\ \E h \in HeaderValues : rate_limit_remaining' = h
    /\ \E assets \in ReleaseAssetLists :
          FinishSource(PackageFrom(repo_info, assets),
                       << [repo_info |-> repo_info, assets |-> assets] >>)
    /\ last_response' = Response("ok", 200, FALSE, "none")
    /\ attempt' = 0
    /\ repo_info' = JNull
    /\ called' = TRUE
    /\ UNCHANGED <<sources_lines, scripts_lines, urls, gist_urls, scripts, file>>
    /\ UNCHANGED <<clsVars, selVars, valVars>>

\* _make_request: an attempt that raises HTTPError
RequestHttpError ==
    /\ gen_pc \in {"repo_req", "release_req"}
    /\ \E code \in {403, 404, 500}, rate_body \in BOOLEAN :
          CASE code = 403 ->
                  /\ last_response' =
                        Response("http", 403, rate_body,
                                 IF IsRateLimit(rate_body, rate_limit_remaining)
                                 THEN "rate_limit" ELSE "permission_denied")
                  /\ RetryOrRaise
            [] code = 404 ->
                  /\ ~rate_body
                  /\ last_response' = Response("http", 404, FALSE, "none")
                  /\ CallFailed
            [] OTHER ->
                  /\ ~rate_body
                  /\ last_response' = Response("http", code, FALSE, "http_error")
                  /\ RetryOrRaise
    /\ called' = TRUE
    /\ UNCHANGED <<sources_lines, scripts_lines, urls, gist_urls, scripts,
                   rate_limit_remaining, file>>
    /\ UNCHANGED <<clsVars, selVars, valVars>>

\* _make_request: an attempt that raises URLError
RequestUrlError ==
    /\ gen_pc \in {"repo_req", "release_req"}
    /\ last_response' = Response("url", 0, FALSE, "network_error")
    /\ RetryOrRaise
    /\ called' = TRUE
    /\ UNCHANGED <<sources_lines, scripts_lines, urls, gist_urls, scripts,
                   rate_limit_remaining, file>>
    /\ UNCHANGED <<clsVars, selVars, valVars>>

\* _make_request: an attempt that raises anything else (not caught in the loop)
RequestOtherError ==
    /\ gen_pc \in {"repo_req", "release_req"}
    /\ last_response' = Response("other", 0, FALSE, "none")
    /\ CallFailed
    /\ called' = TRUE
    /\ UNCHANGED <<sources_lines, scripts_lines, urls, gist_urls, scripts,
                   rate_limit_remaining, file>>
    /\ UNCHANGED <<clsVars, selVars, valVars>>

\* generate: open(output_file, "w") truncates the file
OpenOutput ==
    /\ gen_pc = "save"
    /\ file' = BrokenFile
    /\ gen_pc' = "dump"
    /\ UNCHANGED <<sources_lines, scripts_lines, gen_i, urls, gist_urls, packages,
                   scripts, repo_info, attempt, last_response, rate_limit_remaining,
                   fetched, called, slept>>
    /\ UNCHANGED <<clsVars, selVars, valVars>>

\* generate: json.dump(manifest_obj, f) and the close of the file
DumpManifest ==
    /\ gen_pc = "dump"
    /\ file' = JsonFile(ManifestJson(packages, scripts))
    /\ gen_pc' = "done"
    /\ UNCHANGED <<sources_lines, scripts_lines, gen_i, urls, gist_urls, packages,
                   scripts, repo_info, attempt, last_response, rate_limit_remaining,
                   fetched, called, slept>>
    /\ UNCHANGED <<clsVars, selVars, valVars>>

(***************************************************************************)
(* ManifestValidator                                                       *)
(***************************************************************************)
\* ManifestValidator.REQUIRED_PACKAGE_FIELDS
REQUIRED_PACKAGE_FIELDS == <<"name", "description", "repo", "platforms">>

\* ManifestValidator.REQUIRED_PLATFORM_FIELDS
REQUIRED_PLATFORM_FIELDS == <<"url", "size">>

\* one entry of self.errors / self.warnings, or one line of output: the text,
\* the package it names (pkg_id) and the platform it names
Message(msg, id, plat) == [msg |-> msg, id |-> id, plat |-> plat]

\* `key in d` on a dict
HasKey(d, key) == key \in DOMAIN d.f

RECURSIVE SetToSeq(_)
\* the elements of a finite set in some fixed order
SetToSeq(S) ==
    IF S = {} THEN <<>>
    ELSE LET x == CHOOSE y \in S : TRUE IN <<x>> \o SetToSeq(S \ {x})

\* whether `for x in v` can start (a list, a dict or a str)
Iterable(v) == v.t \in {"list", "dict", "str"}

\* what `for x in v` yields: the items of a list, the keys of a dict, the
\* characters of a str
Elements(v) ==
    CASE v.t = "list" -> v.items
      [] v.t = "dict" -> [n \in 1..Cardinality(DOMAIN v.f) |-> JStr(SetToSeq(DOMAIN v.f)[n])]
      [] v.t = "str"  -> [n \in 1..Len(v.s) |-> JStr(CharAt(v.s, n))]
      [] OTHER -> <<>>

\* the findings of one check: new errors and new warnings, in order
Findings(e, w) == [e |-> e, w |-> w]

Join(a, b) == Findings(a.e \o b.e, a.w \o b.w)

RECURSIVE MissingFields(_, _, _, _)
\* "Check required fields": one error per field of `fields` that d lacks
MissingFields(d, fields, id, plat) ==
    IF Len(fields) = 0 THEN <<>>
    ELSE (IF HasKey(d, Head(fields)) THEN <<>>
          ELSE << Message(IF plat = "" THEN "Missing required field '" \o Head(fields) \o "'"
                          ELSE "Missing '" \o Head(fields) \o "'", id, plat) >>)
             \o MissingFields(d, Tail(fields), id, plat)

\* _validate_platform, the size test: `isinstance(size, int) and size > 0`
PositiveSize(size) == size.t = "int" /\ size.n > 0

\* ManifestValidator._validate_platform
validate_platform(platform, pkg_id, platform_id) ==
    IF platform.t # "dict"
    THEN Findings(<<Message("Platform data must be an object", pkg_id, platform_id)>>, <<>>)
    ELSE Findings(
            MissingFields(platform, REQUIRED_PLATFORM_FIELDS, pkg_id, platform_id)
            \o (IF HasKey(platform, "url") /\ platform.f["url"].t # "str"
                THEN <<Message("Invalid URL", pkg_id, platform_id)>> ELSE <<>>)
            \o (IF HasKey(platform, "size") /\ ~PositiveSize(platform.f["size"])
                THEN <<Message("Invalid size", pkg_id, platform_id)>> ELSE <<>>),
            (IF /\ HasKey(platform, "url")
                /\ platform.f["url"].t = "str"
                /\ ~StartsWith(platform.f["url"].s, "https://")
             THEN <<Message("URL not using HTTPS", pkg_id, platform_id)>> ELSE <<>>)
            \o (IF HasKey(platform, "checksum") /\ platform.f["checksum"].t # "str"
                THEN <<Message("Invalid checksum format", pkg_id, platform_id)>> ELSE <<>>))

RECURSIVE validate_each_platform(_, _, _)
\* _validate_platforms, the loop over platforms.items()
validate_each_platform(plats, ids, pkg_id) ==
    IF Len(ids) = 0 THEN Findings(<<>>, <<>>)
    ELSE Join(validate_platform(plats.f[Head(ids)], pkg_id, Head(ids)),
              validate_each_platform(plats, Tail(ids), pkg_id))

\* ManifestValidator._validate_platforms
validate_platforms(plats, pkg_id) ==
    IF plats.t # "dict"
    THEN Findings(<<Message("Platforms must be an object", pkg_id, "")>>, <<>>)
    ELSE IF DOMAIN plats.f = {}
    THEN Findings(<<Message("No platforms defined", pkg_id, "")>>, <<>>)
    ELSE validate_each_platform(plats, SetToSeq(DOMAIN plats.f), pkg_id)

\* ManifestValidator._validate_package on a dict
validate_package(package, index) ==
    LET pkg_id == IF HasKey(package, "name") THEN package.f["name"]
                  ELSE JStr("package[" \o ToString(index) \o "]")
        Err(cond, msg) == IF cond THEN <<Message(msg, pkg_id, "")>> ELSE <<>>
    IN  Join(
          Findings(
            MissingFields(package, REQUIRED_PACKAGE_FIELDS, pkg_id, "")
            \o Err(HasKey(package, "name")
                     /\ (package.f["name"].t # "str" \/ ~Truthy(package.f["name"])),
                   "Invalid name")
            \o Err(HasKey(package, "description") /\ package.f["description"].t # "str",
                   "Invalid description")
            \o Err(HasKey(package, "repo") /\ package.f["repo"].t # "str",
                   "Invalid repo URL")
            \o Err(HasKey(package, "homepage") /\ Truthy(package.f["homepage"])
                     /\ package.f["homepage"].t # "str",
                   "Invalid homepage"),
            Err(HasKey(package, "repo") /\ package.f["repo"].t = "str"
                  /\ ~StartsWith(package.f["repo"].s, "https://github.com/"),
                "Repo URL not from GitHub")
            \o Err(HasKey(package, "license") /\ Truthy(package.f["license"])
                     /\ package.f["license"].t # "str",
                   "Invalid license format")),
          IF HasKey(package, "platforms")
          THEN validate_platforms(package.f["platforms"], pkg_id)
          ELSE Findings(<<Message("Missing platforms", pkg_id, "")>>, <<>>))

\* _check_duplicates, `names`: the name of every record that has one
NamesOf(pkgs) ==
    LET withName == {n \in 1..Len(pkgs) : HasKey(pkgs[n], "name")}
    IN  [k \in 1..Cardinality(withName) |->
            pkgs[CHOOSE n \in withName :
                    Cardinality({m \in withName : m < n}) = k - 1].f["name"]]

\* mutant of Count: the count is one too many, as with `>= 1` for `> 1`
Count_OneTooMany(names, name) == Cardinality({n \in 1..Len(names) : names[n] = name}) + 1

\* names.count(name)
Count(names, name) == Cardinality({n \in 1..Len(names) : names[n] = name})

\* _check_duplicates, `duplicates`: the names carried by two or more records
Duplicates(names) == {names[n] : n \in {m \in 1..Len(names) : Count(names, names[m]) > 1}}

\* set(...) raises TypeError on a list or a dict
Hashable(v) == v.t \notin {"list", "dict"}

\* the manifest files the validator is run on
GoodPlatforms ==
    JObj([P \in {"linux-x86_64"} |->
            JObj([url |-> JStr("https://github.com/o/a/releases/download/v1/a.tar.gz"),
                  size |-> JInt(11)])])

PackagePool == {
    JObj([name |-> JStr("a"), description |-> JStr(""),
          repo |-> JStr("https://github.com/o/a"), homepage |-> JNull, license |-> JNull,
          platforms |-> GoodPlatforms]),
    JObj([name |-> JStr("b"), description |-> JStr("b tool"),
          repo |-> JStr("https://gitlab.com/p/b"), homepage |-> JStr("https://b.example"),
          license |-> JInt(7), platforms |-> GoodPlatforms]),
    JObj([name |-> JStr("d")]),
    JObj([description |-> JStr("no name"), repo |-> JStr("https://github.com/o/e"),
          platforms |-> GoodPlatforms]),
    JObj([name |-> JInt(5), description |-> JNull, repo |-> JInt(6), homepage |-> JInt(1),
          platforms |-> JList(<<>>)]),
    JObj([name |-> JStr(""), description |-> JStr(""),
          repo |-> JStr("https://github.com/o/f"), platforms |-> JObj(EmptyDict)]),
    JObj([name |-> JStr("g"), description |-> JStr(""),
          repo |-> JStr("https://github.com/o/g"),
          platforms |-> JObj([P \in {"linux-x86_64", "windows-x86_64", "darwin-aarch64"} |->
              CASE P = "linux-x86_64" -> JStr("a.tar.gz")
                [] P = "windows-x86_64" ->
                      JObj([url |-> JStr("http://example.com/g.zip"), size |-> JInt(0),
                            checksum |-> JInt(1)])
                [] OTHER -> JObj([url |-> JInt(1), size |-> JStr("11")])])]),
    JObj([name |-> JList(<<JStr("a")>>), description |-> JStr(""),
          repo |-> JStr("https://github.com/o/h"), platforms |-> GoodPlatforms]),
    JInt(1),
    JStr("a"),
    JNull }

Documents ==
    {JList(q) : q \in SeqsUpTo(PackagePool, MaxPackages)}
        \cup {JObj(EmptyDict), JStr(""), JStr("ab"), JInt(5), JNull}

\* the records fetch_package_info can return in the model
BuiltPackages ==
    {BuildPackage(info, Select(assets)) :
        info \in RepoInfos, assets \in {a \in ReleaseAssetLists : Select(a) # EmptyDict}}

\* the script lists generate can end with in the model
BuiltScripts == {<<>>} \cup {gist_scripts(r, r.files) : r \in GistResponses}

\* the files generate can write: json.dump of manifest_obj
BuilderFiles ==
    {JsonFile(ManifestJson(pkgs, scrs)) :
        pkgs \in SeqsUpTo(BuiltPackages, MaxSources), scrs \in BuiltScripts}

\* a missing file, a file that is not JSON, hand-made documents and the files
\* the generator writes
ManifestFiles == {NoFile, BrokenFile} \cup {JsonFile(d) : d \in Documents} \cup BuilderFiles

\* the validator not started
ValInit ==
    /\ v_pc = "idle"
    /\ v_packages = JList(<<>>)
    /\ v_i = 0
    /\ errors = <<>>
    /\ warnings = <<>>
    /\ v_stdout = <<>>
    /\ result = "none"
    /\ exit_code = -1
    /\ checks_run = {}

\* validate: the banner, then _load_manifest; on a load failure validate returns
\* False at once and main exits with 1
LoadManifest ==
    /\ v_pc = "idle"
    /\ IF file.kind = "json"
       THEN /\ v_packages' = file.doc
            /\ v_stdout' = v_stdout \o <<Message("banner", JNull, ""), Message("Loaded", JNull, "")>>
            /\ v_pc' = "structure"
            /\ UNCHANGED <<errors, result, exit_code>>
       ELSE /\ errors' = Append(errors, Message(IF file.kind = "missing" THEN "File not found"
                                                  ELSE "Invalid JSON", JNull, ""))
            /\ v_stdout' = Append(v_stdout, Message("banner", JNull, ""))
            /\ result' = "false"
            /\ exit_code' = 1
            /\ v_pc' = "done"
            /\ UNCHANGED v_packages
    /\ UNCHANGED <<v_i, warnings, checks_run>>
    /\ UNCHANGED <<clsVars, selVars, genVars>>

\* ManifestValidator._validate_structure
ValidateStructure ==
    /\ v_pc = "structure"
    /\ IF v_packages.t # "list"
       THEN /\ errors' = Append(errors, Message("Manifest must be an array of packages", JNull, ""))
            /\ UNCHANGED warnings
       ELSE /\ warnings' = IF Len(v_packages.items) = 0
                           THEN Append(warnings, Message("Manifest is empty", JNull, ""))
                           ELSE warnings
            /\ UNCHANGED errors
    /\ checks_run' = checks_run \cup {"structure"}
    /\ v_i' = 0
    /\ v_pc' = "packages"
    /\ UNCHANGED <<v_packages, v_stdout, result, exit_code>>
    /\ UNCHANGED <<clsVars, selVars, genVars>>

\* validate: `for i, package in enumerate(self.packages)` is over
PackagesDone ==
    /\ v_pc = "packages"
    /\ Iterable(v_packages)
    /\ v_i = Len(Elements(v_packages))
    /\ v_pc' = "duplicates"
    /\ UNCHANGED <<v_packages, v_i, errors, warnings, v_stdout, result, exit_code, checks_run>>
    /\ UNCHANGED <<clsVars, selVars, genVars>>

\* validate: one iteration of the package loop, _validate_package on a dict
ValidatePackage ==
    /\ v_pc = "packages"
    /\ Iterable(v_packages)
    /\ v_i < Len(Elements(v_packages))
    /\ Elements(v_packages)[v_i + 1].t = "dict"
    /\ LET found == validate_package(Elements(v_packages)[v_i + 1], v_i)
       IN  /\ errors' = errors \o found.e
           /\ warnings' = warnings \o found.w
    /\ v_i' = v_i + 1
    /\ checks_run' = checks_run \cup {"package"}
    /\ UNCHANGED <<v_pc, v_packages, v_stdout, result, exit_code>>
    /\ UNCHANGED <<clsVars, selVars, genVars>>

\* validate: the package loop raises (enumerate of a value that is not iterable:
\* TypeError; package.get on a value that is not a dict: AttributeError); nothing
\* catches it, the interpreter prints the traceback and exits with 1
PackageLoopRaises ==
    /\ v_pc = "packages"
    /\ \/ ~Iterable(v_packages)
       \/ /\ v_i < Len(Elements(v_packages))
          /\ Elements(v_packages)[v_i + 1].t # "dict"
    /\ v_pc' = "crashed"
    /\ exit_code' = 1
    /\ UNCHANGED <<v_packages, v_i, errors, warnings, v_stdout, result, checks_run>>
    /\ UNCHANGED <<clsVars, selVars, genVars>>

\* ManifestValidator._check_duplicates
CheckDuplicates ==
    /\ v_pc = "duplicates"
    /\ \A name \in Duplicates(NamesOf(Elements(v_packages))) : Hashable(name)
    /\ LET names == NamesOf(Elements(v_packages))
           dups == SetToSeq(Duplicates(names))
       IN  errors' = errors \o [n \in 1..Len(dups) |->
                                   Message("Duplicate package name", dups[n], "")]
    /\ checks_run' = checks_run \cup {"duplicates"}
    /\ v_pc' = "report"
    /\ UNCHANGED <<v_packages, v_i, warnings, v_stdout, result, exit_code>>
    /\ UNCHANGED <<clsVars, selVars, genVars>>

\* _check_duplicates raises TypeError: set() of a repeated name that is a list or
\* a dict
DuplicatesRaises ==
    /\ v_pc = "duplicates"
    /\ \E name \in Duplicates(NamesOf(Elements(v_packages))) : ~Hashable(name)
    /\ v_pc' = "crashed"
    /\ exit_code' = 1
    /\ UNCHANGED <<v_packages, v_i, errors, warnings, v_stdout, result, checks_run>>
    /\ UNCHANGED <<clsVars, selVars, genVars>>

\* mutant of Passed: a warning fails the manifest too
Passed_NoWarnings(errs, warns) == Len(errs) = 0 /\ Len(warns) = 0

\* validate: `return len(self.errors) == 0`
Passed(errs, warns) == Len(errs) = 0

\* ManifestValidator._print_results, then validate returns and main exits
PrintResults ==
    /\ v_pc = "report"
    /\ v_stdout' = v_stdout
          \o (IF Len(errors) > 0 THEN <<Message("Error(s):", JNull, "")>> \o errors ELSE <<>>)
          \o (IF Len(warnings) > 0 THEN <<Message("Warning(s):", JNull, "")>> \o warnings
              ELSE <<>>)
          \o (IF Len(errors) = 0 /\ Len(warnings) = 0
              THEN <<Message("Manifest is valid!", JNull, "")>> ELSE <<>>)
    /\ checks_run' = checks_run \cup {"report"}
    /\ result' = IF Passed(errors, warnings) THEN "true" ELSE "false"
    /\ exit_code' = IF Passed(errors, warnings) THEN 0 ELSE 1
    /\ v_pc' = "done"
    /\ UNCHANGED <<v_packages, v_i, errors, warnings>>
    /\ UNCHANGED <<clsVars, selVars, genVars>>

ValNext ==
    \/ LoadManifest
    \/ ValidateStructure
    \/ ValidatePackage
    \/ PackagesDone
    \/ PackageLoopRaises
    \/ CheckDuplicates
    \/ DuplicatesRaises
    \/ PrintResults

\* the validator run on a manifest file of any content
ValidatorInit == ClsIdle /\ SelIdle /\ GenIdle /\ ValInit /\ file \in ManifestFiles

ValidatorSpec == ValidatorInit /\ [][ValNext]_vars

ClassifierInit == ClsInit /\ SelIdle /\ GenIdle /\ ValInit /\ file = NoFile

ClassifierSpec == ClassifierInit /\ [][ClsNext]_vars

SelNext == SelectAsset

SelectorInit == ClsIdle /\ SelInit /\ GenIdle /\ ValInit /\ file = NoFile

SelectorSpec == SelectorInit /\ [][SelNext]_vars

Init == ClsIdle /\ SelIdle /\ GenInit /\ ValInit

Next ==
    \/ LoadScriptSources
    \/ FetchGist
    \/ LoadPackageSources
    \/ StartSource
    \/ RepoInfoOk
    \/ ReleaseOk
    \/ RequestHttpError
    \/ RequestUrlError
    \/ RequestOtherError
    \/ OpenOutput
    \/ DumpManifest

Spec == Init /\ [][Next]_vars

(***************************************************************************)
(* The selector (SelectorSpec)                                             *)
(***************************************************************************)
\* every PlatformId of the two tables
PlatformIds ==
    {PATTERNS[n].platform : n \in 1..Len(PATTERNS)}
        \cup {FALLBACK_PATTERNS[n].platform : n \in 1..Len(FALLBACK_PATTERNS)}

\* the positions, among the first n assets, of those classified to P
ClassifiedTo(P, n) == {k \in 1..n : detect_platform(sel_assets[k].name) = P}

SetMin(S) == CHOOSE k \in S : \A j \in S : k <= j

SetMax(S) == CHOOSE k \in S : \A j \in S : k >= j

\* the positions of ClassifiedTo(P, n) whose variant priority is the greatest
TopPriority(P, n) ==
    {k \in ClassifiedTo(P, n) :
        \A j \in ClassifiedTo(P, n) :
            variant_priority(sel_assets[k].name) >= variant_priority(sel_assets[j].name)}

\* C1: after any number of iterations of the asset loop, a Linux PlatformId is
\* bound exactly when some processed asset classifies to it, and its binding is
\* the first asset, in list order, among those of maximum variant priority
\* (musl 3, gnu 2, neither 1): an equal-priority later asset never replaces it.
C1_LinuxFirstOfMaxPriority ==
    \A P \in {Q \in PlatformIds : StartsWith(Q, "linux-")} :
        IF ClassifiedTo(P, sel_i) = {}
        THEN P \notin DOMAIN platforms
        ELSE /\ P \in DOMAIN platforms
             /\ platforms[P] = asset_info(sel_assets[SetMin(TopPriority(P, sel_i))])
             /\ platform_priorities[P] =
                    variant_priority(sel_assets[SetMin(TopPriority(P, sel_i))].name)

\* the loop is over, two different assets of the top priority classify to one
\* Linux platform after a lower-priority one, and the first of the two is bound
C1_Witness ==
    /\ sel_i = Len(sel_assets)
    /\ \E P \in DOMAIN platforms :
          /\ StartsWith(P, "linux-")
          /\ \E a, b \in TopPriority(P, sel_i) :
                /\ a < b
                /\ sel_assets[a] # sel_assets[b]
                /\ platforms[P] = asset_info(sel_assets[a])
          /\ SetMin(ClassifiedTo(P, sel_i)) \notin TopPriority(P, sel_i)

\* C2: after any number of iterations of the asset loop, a non-Linux PlatformId
\* is bound exactly when some processed asset classifies to it, and its binding
\* is the last such asset in list order, whatever keywords the filenames carry.
C2_NonLinuxLastWins ==
    \A P \in {Q \in PlatformIds : ~StartsWith(Q, "linux-")} :
        IF ClassifiedTo(P, sel_i) = {}
        THEN P \notin DOMAIN platforms
        ELSE /\ P \in DOMAIN platforms
             /\ platforms[P] = asset_info(sel_assets[SetMax(ClassifiedTo(P, sel_i))])

\* the loop is over and a non-Linux platform is bound to its last asset although
\* an earlier asset of that platform carries the gnu keyword and the last does not
C2_Witness ==
    /\ sel_i = Len(sel_assets)
    /\ \E P \in DOMAIN platforms :
          /\ ~StartsWith(P, "linux-")
          /\ \E a, b \in ClassifiedTo(P, sel_i) :
                /\ a < b
                /\ b = SetMax(ClassifiedTo(P, sel_i))
                /\ variant_priority(sel_assets[a].name) > variant_priority(sel_assets[b].name)
                /\ platforms[P] = asset_info(sel_assets[b])
                /\ platforms[P] # asset_info(sel_assets[a])

\* C15: after any number of iterations of the asset loop, the keys of platforms
\* are exactly the PlatformIds that a processed asset classifies to, and the url
\* and the size of each binding are those of one processed asset that classifies
\* to its key.
C15_KeysAreClassifiedPlatforms ==
    /\ DOMAIN platforms =
          {detect_platform(sel_assets[k].name) : k \in 1..sel_i} \ {None}
    /\ \A P \in DOMAIN platforms :
          \E k \in ClassifiedTo(P, sel_i) :
              /\ platforms[P].url = sel_assets[k].browser_download_url
              /\ platforms[P].size = sel_assets[k].size

\* the loop is over, two platforms are bound, two different assets classify to
\* one of them and one asset is unclassified or classifies to the other
C15_Witness ==
    /\ sel_i = Len(sel_assets)
    /\ Cardinality(DOMAIN platforms) >= 2
    /\ \E P \in DOMAIN platforms :
          \E a, b \in ClassifiedTo(P, sel_i) : sel_assets[a] # sel_assets[b]

(***************************************************************************)
(* The generator (Spec)                                                    *)
(***************************************************************************)
RequestStates == {"repo_req", "release_req"}

RECURSIVE ExpectedPackages(_)
\* the records of the first n sources that succeeded, in the order of the input
\* list: the URL parses, both requests were answered and the asset list of the
\* release holds a classifiable asset
ExpectedPackages(n) ==
    IF n = 0 THEN <<>>
    ELSE ExpectedPackages(n - 1)
            \o (IF parse_github_url(urls[n]) /\ Len(fetched[n]) > 0
                THEN PackageFrom(fetched[n][1].repo_info, fetched[n][1].assets)
                ELSE <<>>)

\* what generate writes is one of the files the validator is run on
WrittenFileIsBuilderFile == gen_pc = "done" => file \in BuilderFiles

\* C3: when generate is done the package names of the manifest are pairwise
\* distinct: a record whose name an accepted record already carries is skipped.
C3_PackageNamesDistinct ==
    gen_pc = "done" =>
        \A a, b \in 1..Len(packages) : a # b => packages[a].name # packages[b].name

\* C5: generate never stops before the manifest is written; the records
\* collected so far are those of the sources processed so far that succeeded, in
\* input order; and when generate is done every source was processed and the
\* file holds exactly those records.
C5_ManifestHoldsSucceededInOrder ==
    /\ gen_pc # "done" => ENABLED Next
    /\ gen_pc \in {"pkg", "repo_req", "release_req", "save", "dump", "done"} =>
          /\ packages = ExpectedPackages(Len(fetched))
          /\ Len(fetched) = IF gen_pc \in {"save", "dump", "done"} THEN Len(urls) ELSE gen_i - 1
    /\ gen_pc = "done" =>
          file = JsonFile(ManifestJson(ExpectedPackages(Len(urls)), scripts))

\* generate is done, an earlier source failed in a request, a later one
\* succeeded, and the manifest holds the record of that one
C5_Witness ==
    /\ gen_pc = "done"
    /\ Len(urls) >= 2
    /\ parse_github_url(urls[1])
    /\ fetched[1] = <<>>
    /\ Len(fetched[2]) > 0
    /\ Len(packages) = 1
    /\ file = JsonFile(ManifestJson(packages, scripts))

\* an attempt that is answered by a permission-denied 403 is the last of its call
DeniedAttemptEndsCall ==
    (gen_pc \in RequestStates /\ last_response'.log = "permission_denied") =>
        /\ gen_pc' \notin RequestStates
        /\ gen_i' = gen_i + 1
        /\ packages' = packages

\* C6: an attempt answered by a 403 that is not a rate-limit response ends the
\* call: the denial is logged, no further attempt is made and the source is
\* skipped.
C6_PermissionDeniedNotRetried == [][DeniedAttemptEndsCall]_vars

\* the source of the call is skipped and nothing else: the records collected
\* stay and the builder goes on to the next source, or to the save after the last
SourceSkipped ==
    /\ packages' = packages
    /\ gen_i' = gen_i + 1
    /\ gen_pc' = IF gen_i < Len(urls) THEN "pkg" ELSE "save"

\* one attempt of a call, and what follows it
AttemptStep ==
    gen_pc \in RequestStates =>
        /\ attempt < MAX_RETRIES
        /\ ((last_response'.kind = "url" \/ last_response'.log = "rate_limit")
                /\ attempt + 1 < MAX_RETRIES) =>
              gen_pc' = gen_pc /\ attempt' = attempt + 1 /\ gen_i' = gen_i /\ packages' = packages
        /\ (last_response'.kind = "http" /\ last_response'.code = 404) => SourceSkipped
        /\ (last_response'.kind # "ok" /\ attempt + 1 = MAX_RETRIES) => SourceSkipped

\* C7: every attempt of a call is one of at most MAX_RETRIES; a network error or
\* a rate-limit response is followed by another attempt while attempts remain; a
\* 404 ends the call on its attempt; and a call that fails on its last attempt
\* skips its source only: the records collected stay and the builder goes on to
\* the next source, or to the save after the last one.
C7_BoundedRetriesPerSource == [][AttemptStep]_vars

\* the repository request of the first source used up its attempts on network
\* errors, nothing was collected for it and the builder is at the second source
C7_Witness ==
    /\ gen_pc = "pkg"
    /\ gen_i = 2
    /\ last_response.kind = "url"
    /\ fetched = << <<>> >>
    /\ packages = <<>>

\* the next step of the generator makes an outbound call to the upstream API
OutboundCallNext ==
    \/ gen_pc = "gist" /\ parse_gist_url(gist_urls[gen_i])
    \/ gen_pc \in RequestStates

\* C12: an outbound call that is not the first of the run is made only after
\* at least RATE_LIMIT_DELAY seconds were slept since the call before it.
C12_MinimumDelayBetweenCalls ==
    (OutboundCallNext /\ called) => slept >= RATE_LIMIT_DELAY

\* C11: whatever the point at which the process is terminated, the output path
\* holds no new manifest or the complete one: in every state of the run the file
\* is absent or holds the whole manifest document.
C11_NoPartialManifest ==
    \/ file = NoFile
    \/ file = JsonFile(ManifestJson(packages, scripts))

(***************************************************************************)
(* The validator (ValidatorSpec)                                           *)
(***************************************************************************)
\* a record the validator has nothing to say about
WellFormedRecord(package) ==
    /\ package.t = "dict"
    /\ validate_package(package, 0) = Findings(<<>>, <<>>)

\* a file generate wrote for a run whose records are all well-formed
WellFormedBuilderFile ==
    /\ file \in BuilderFiles
    /\ \A n \in 1..Len(file.doc.f["packages"].items) :
          WellFormedRecord(file.doc.f["packages"].items[n])

\* C4: the validator run on a file the generator wrote for well-formed records
\* finds no error and no warning, does not end abnormally and returns true.
C4_RoundTripValid ==
    WellFormedBuilderFile =>
        /\ errors = <<>>
        /\ warnings = <<>>
        /\ v_pc # "crashed"
        /\ v_pc = "done" => result = "true" /\ exit_code = 0

\* C8: when validate has returned, it returned true exactly when no error was
\* accumulated, whatever the number of warnings, and main exits with 0 for true
\* and 1 for false.
C8_ResultIffNoErrors ==
    v_pc = "done" =>
        /\ result \in {"true", "false"}
        /\ result = "true" <=> Len(errors) = 0
        /\ exit_code = IF Len(errors) = 0 THEN 0 ELSE 1

\* validate returned true with warnings accumulated
C8_Witness ==
    /\ v_pc = "done"
    /\ Len(warnings) > 0
    /\ Len(errors) = 0
    /\ result = "true"
    /\ exit_code = 0

\* C9: on a file that loads as JSON the validator never ends abnormally, and
\* when it is done it has run the structural check, the check of every record,
\* the cross-record check and the report.
C9_EveryCheckRuns ==
    file.kind = "json" =>
        /\ v_pc # "crashed"
        /\ v_pc = "done" =>
              /\ {"structure", "duplicates", "report"} \subseteq checks_run
              /\ v_i = Len(Elements(file.doc))
              /\ result \in {"true", "false"}

\* C10: after a load failure validate has printed the load error, has run no
\* check, has returned false, and main exits with 1.
C10_LoadFailureReported ==
    (file.kind # "json" /\ v_pc = "done") =>
        /\ Len(errors) = 1
        /\ \E n \in 1..Len(v_stdout) : v_stdout[n] = errors[1]
        /\ checks_run = {}
        /\ result = "false"
        /\ exit_code = 1

\* the file is a sequence of package records: objects whose name, where there is
\* one, is a string
SequenceOfRecords ==
    /\ file.kind = "json"
    /\ file.doc.t = "list"
    /\ \A n \in 1..Len(file.doc.items) :
          /\ file.doc.items[n].t = "dict"
          /\ HasKey(file.doc.items[n], "name") => file.doc.items[n].f["name"].t = "str"

\* the names two or more records of the file carry
RepeatedNames ==
    {file.doc.items[a].f["name"] :
        a \in {b \in 1..Len(file.doc.items) :
                 /\ HasKey(file.doc.items[b], "name")
                 /\ \E c \in 1..Len(file.doc.items) :
                       /\ c # b
                       /\ HasKey(file.doc.items[c], "name")
                       /\ file.doc.items[c].f["name"] = file.doc.items[b].f["name"]}}

\* the positions of the duplicate-name errors in self.errors
DuplicateErrors == {n \in 1..Len(errors) : errors[n].msg = "Duplicate package name"}

\* C13: on a sequence of package records, once the cross-record check has run,
\* self.errors holds exactly one duplicate-name error for each name that two or
\* more records carry, naming that name, and no other duplicate-name error; before
\* the check has run it holds none.
C13_OneErrorPerRepeatedName ==
    SequenceOfRecords =>
        IF "duplicates" \in checks_run
        THEN /\ \A name \in RepeatedNames :
                   Cardinality({n \in DuplicateErrors : errors[n].id = name}) = 1
             /\ \A n \in DuplicateErrors : errors[n].id \in RepeatedNames
        ELSE DuplicateErrors = {}

\* the cross-record check has run on a file in which two records carry one name
\* and added its single error
C13_Witness ==
    /\ SequenceOfRecords
    /\ "duplicates" \in checks_run
    /\ Len(file.doc.items) >= 2
    /\ RepeatedNames # {}
    /\ Cardinality(DuplicateErrors) = Cardinality(RepeatedNames)

(***************************************************************************)
(* The classifier (ClassifierSpec)                                         *)
(***************************************************************************)
\* the filename ends with a recognized archive extension
HasArchiveExtension ==
    \E e \in 1..Len(ARCHIVE_EXTENSIONS) : EndsWith(Lower(cls_filename), ARCHIVE_EXTENSIONS[e])

\* some pattern of the exact table is found in the filename
ExactTableMatches ==
    \E n \in 1..Len(PATTERNS) : EntryMatches(PATTERNS, n, Lower(cls_filename))

\* the step-by-step classifier returns what the one-step operator returns
ClassifierAgreesWithDetectResult ==
    cls_pc = "returned" =>
        /\ cls_platform = DetectResult(cls_filename).platform
        /\ (cls_stdout # <<>>) = DetectResult(cls_filename).notice

\* C14: the fallback table is consulted only for a filename with an archive
\* extension that no pattern of the exact table matches; when detect_platform has
\* returned, a result taken from the fallback table has printed exactly one
\* notice, naming the filename as given and the platform returned, and a result
\* from the exact table or no result has printed nothing.
C14_FallbackIsAnnounced ==
    /\ "FALLBACK_PATTERNS" \in cls_consulted => HasArchiveExtension /\ ~ExactTableMatches
    /\ cls_pc # "returned" => cls_stdout = <<>>
    /\ cls_pc = "returned" =>
          IF "FALLBACK_PATTERNS" \in cls_consulted /\ cls_platform # None
          THEN cls_stdout = << [filename |-> cls_filename, platform |-> cls_platform] >>
          ELSE cls_stdout = <<>>

\* detect_platform has returned a platform of the fallback table for a filename
\* written with capitals and has printed the notice for it
C14_Witness ==
    /\ cls_pc = "returned"
    /\ "FALLBACK_PATTERNS" \in cls_consulted
    /\ cls_platform = "darwin-aarch64"
    /\ cls_filename # Lower(cls_filename)
    /\ Len(cls_stdout) = 1

====
